---- MODULE Spec2Model ----
(***************************************************************************)
(* Model of mandelbrot_compute: the viewport state (SampleLocation), the   *)
(* compute engine (Computer), the presentation engine (Renderer) and the   *)
(* winit event loop of main() that drives them.                            *)
(*                                                                         *)
(* Numbers keep the width they have in the source.  An f32 is the record   *)
(* of its three IEEE-754 binary32 fields, [s, ex, fr]: sign bit, biased    *)
(* 8-bit exponent, 23-bit fraction.  A u32 is the pair of its 16-bit       *)
(* halves, [hi, lo], because TLC evaluates 32-bit signed integers.         *)
(***************************************************************************)
EXTENDS Integers, Sequences, FiniteSets, TLC

(***************************************************************************)
(* IEEE-754 binary32 arithmetic, round-to-nearest-even (Rust f32).         *)
(***************************************************************************)
VARIABLE nan_sign      \* sign bit of the NaNs this build's f32 arithmetic makes

Pow2(n) == 2 ^ n

F32(s, ex, fr) == [s |-> s, ex |-> ex, fr |-> fr]

IsNaN(a) == a.ex = 255 /\ a.fr # 0
IsInf(a) == a.ex = 255 /\ a.fr = 0
IsFinite(a) == a.ex < 255
IsZero(a) == a.ex = 0 /\ a.fr = 0

\* The NaN an invalid operation (inf - inf, 0 * inf) or a NaN operand
\* gives.  Rust leaves the sign of that NaN to the build: it is quiet, with
\* an empty payload, and its sign bit is nan_sign, which the target fixes
\* (set on x86-64, clear where the default NaN is positive).
F32NaN == F32(nan_sign, 255, 4194304)
F32Inf(s) == F32(s, 255, 0)
F32Zero(s) == F32(s, 0, 0)

\* Integer significand and power-of-two exponent of a finite value:
\* value = Sig(a) * 2^Exp2(a).
Sig(a) == IF a.ex = 0 THEN a.fr ELSE 8388608 + a.fr
Exp2(a) == IF a.ex = 0 THEN -149 ELSE a.ex - 150

\* Number of bits of n (0 for 0), 0 <= n < 2^31, by halving the range.
BitLen4(n) == IF n < 4 THEN (IF n < 2 THEN n ELSE 2) ELSE (IF n < 8 THEN 3 ELSE 4)
BitLen8(n) == IF n < 16 THEN BitLen4(n) ELSE 4 + BitLen4(n \div 16)
BitLen16(n) == IF n < 256 THEN BitLen8(n) ELSE 8 + BitLen8(n \div 256)
BitLen(n) == IF n < 65536 THEN BitLen16(n) ELSE 16 + BitLen16(n \div 65536)

Min(a, b) == IF a < b THEN a ELSE b
Max(a, b) == IF a > b THEN a ELSE b

\* The f32 with sign s and value q * 2^e, where q < 2^24 and either
\* q >= 2^23 (normal, or infinity when the exponent is out of range) or
\* e = -149 (subnormal, zero).
F32Encode(s, q, e) ==
    IF q = 0 THEN F32Zero(s)
    ELSE IF q < 8388608 THEN F32(s, 0, q)
    ELSE IF e + 150 >= 255 THEN F32Inf(s)
    ELSE F32(s, e + 150, q - 8388608)

\* Rounding to nearest, ties to even: q is what is kept, r the sh bits
\* dropped, sticky whether anything nonzero lies below those.
RoundsUp(q, r, sh, sticky) ==
    \/ r > Pow2(sh - 1)
    \/ r = Pow2(sh - 1) /\ (sticky \/ q % 2 = 1)

\* A rounded significand that reached 2^24 moves up one exponent.
F32Carry(s, q, e) ==
    IF q = 16777216 THEN F32Encode(s, 8388608, e + 1) ELSE F32Encode(s, q, e)

\* Drop the sh >= 1 low bits of n, rounding.
F32ShiftRound(s, n, e, sticky, sh) ==
    IF sh >= 31 THEN F32Zero(s)
    ELSE F32Carry(s,
                  (n \div Pow2(sh))
                    + (IF RoundsUp(n \div Pow2(sh), n % Pow2(sh), sh, sticky) THEN 1 ELSE 0),
                  e + sh)

\* The f32 nearest to (-1)^s * (n + eps) * 2^e, where 0 <= n < 2^30 and
\* eps is 0 (sticky = FALSE) or some value strictly between 0 and 1
\* (sticky = TRUE, only with n >= 2^25); ties go to the even significand;
\* overflow gives infinity, underflow goes through the subnormals to zero.
\* A significand longer than 24 bits, or an exponent below -149, loses
\* low bits; otherwise the value is exact and a short significand is
\* brought up to 24 bits as far as the exponent range allows.
F32Round(s, n, e, sticky) ==
    IF Max(BitLen(n) - 24, -149 - e) > 0
    THEN F32ShiftRound(s, n, e, sticky, Max(BitLen(n) - 24, -149 - e))
    ELSE IF n = 0 THEN F32Zero(s)
    ELSE F32Encode(s, n * Pow2(Min(24 - BitLen(n), e + 149)),
                   e - Min(24 - BitLen(n), e + 149))

F32Neg(a) == IF IsNaN(a) THEN a ELSE F32(1 - a.s, a.ex, a.fr)

\* Sum of two finite values.  hi is the operand with the larger exponent:
\* its significand is widened by three guard bits (A); the other one is
\* shifted down onto the same scale (B) and whether bits were shifted out
\* is remembered (st).
ShiftDown(n, d) == IF d >= 28 THEN 0 ELSE n \div Pow2(d)
ShiftLoses(n, d) == IF d >= 28 THEN n # 0 ELSE n % Pow2(d) # 0

F32AddAligned(sa, sb, A, B, st, e) ==
    IF sa = sb THEN F32Round(sa, A + B, e, st)
    ELSE IF A = B /\ ~st THEN F32Zero(0)
    ELSE IF A > B THEN F32Round(sa, A - B - (IF st THEN 1 ELSE 0), e, st)
    ELSE F32Round(sb, B - A, e, FALSE)

F32AddOrdered(hi, lo) ==
    F32AddAligned(hi.s, lo.s, Sig(hi) * 8,
                  ShiftDown(Sig(lo) * 8, Exp2(hi) - Exp2(lo)),
                  ShiftLoses(Sig(lo) * 8, Exp2(hi) - Exp2(lo)),
                  Exp2(hi) - 3)

F32AddFinite(a, b) ==
    IF Exp2(a) < Exp2(b) THEN F32AddOrdered(b, a) ELSE F32AddOrdered(a, b)

F32Add(a, b) ==
    IF IsNaN(a) \/ IsNaN(b) THEN F32NaN
    ELSE IF IsInf(a) /\ IsInf(b) THEN (IF a.s = b.s THEN a ELSE F32NaN)
    ELSE IF IsInf(a) THEN a
    ELSE IF IsInf(b) THEN b
    ELSE F32AddFinite(a, b)

F32Sub(a, b) == F32Add(a, F32Neg(b))

\* Significand of a finite nonzero value shifted up to 24 bits, and the
\* matching exponent (below -149 for a subnormal).
NormShift(a) == 24 - BitLen(Sig(a))
NormSig(a) == Sig(a) * Pow2(NormShift(a))
NormExp(a) == Exp2(a) - NormShift(a)

\* Product of two finite nonzero values.  The 48-bit product of the two
\* 24-bit significands is formed from 12-bit halves as
\* hh * 2^24 + hl * 2^12 + ll, then as top * 2^24 + rest; its top 24 bits
\* and the next five go to F32Round, the rest into the sticky flag.
F32MulJoin(s, top, rest, e) ==
    F32Round(s, top * 32 + (rest \div 524288), e + 19, rest % 524288 # 0)

F32MulParts(s, hh, hl, ll, e) ==
    F32MulJoin(s, hh + ((hl + (ll \div 4096)) \div 4096),
               ((hl + (ll \div 4096)) % 4096) * 4096 + (ll % 4096), e)

F32MulSig(s, ma, mb, e) ==
    F32MulParts(s, (ma \div 4096) * (mb \div 4096),
                (ma \div 4096) * (mb % 4096) + (ma % 4096) * (mb \div 4096),
                (ma % 4096) * (mb % 4096), e)

F32MulFinite(a, b) ==
    F32MulSig((a.s + b.s) % 2, NormSig(a), NormSig(b), NormExp(a) + NormExp(b))

F32Mul(a, b) ==
    IF IsNaN(a) \/ IsNaN(b) THEN F32NaN
    ELSE IF IsInf(a) \/ IsInf(b)
         THEN (IF IsZero(a) \/ IsZero(b) THEN F32NaN ELSE F32Inf((a.s + b.s) % 2))
    ELSE IF IsZero(a) \/ IsZero(b) THEN F32Zero((a.s + b.s) % 2)
    ELSE F32MulFinite(a, b)

\* Comparisons (==, <, <=): false on NaN, and -0.0 == +0.0.
F32Eq(a, b) ==
    /\ ~IsNaN(a) /\ ~IsNaN(b)
    /\ \/ IsZero(a) /\ IsZero(b)
       \/ a = b

\* Magnitude order of two non-NaN values (the fields order like integers).
MagLt(a, b) == a.ex < b.ex \/ (a.ex = b.ex /\ a.fr < b.fr)

F32Lt(a, b) ==
    /\ ~IsNaN(a) /\ ~IsNaN(b)
    /\ ~(IsZero(a) /\ IsZero(b))
    /\ \/ a.s = 1 /\ b.s = 0
       \/ a.s = 0 /\ b.s = 0 /\ MagLt(a, b)
       \/ a.s = 1 /\ b.s = 1 /\ MagLt(b, a)

F32Le(a, b) == F32Lt(a, b) \/ F32Eq(a, b)
F32Gt(a, b) == F32Lt(b, a)
F32Ge(a, b) == F32Le(b, a)

(***************************************************************************)
(* u32 arithmetic on 16-bit halves: value = hi * 65536 + lo.               *)
(***************************************************************************)
U32(hi, lo) == [hi |-> hi, lo |-> lo]

\* The u32 of a number below 2^31.
U32Of(n) == U32(n \div 65536, n % 65536)

U32IsZero(a) == a.hi = 0 /\ a.lo = 0
U32Lt(a, b) == a.hi < b.hi \/ (a.hi = b.hi /\ a.lo < b.lo)
U32Le(a, b) == a = b \/ U32Lt(a, b)

\* a + b: the wrapped sum (overflow checks off) and whether it overflows
\* (where a build with overflow checks panics).
U32AddWraps(a, b) == a.hi + b.hi + ((a.lo + b.lo) \div 65536) >= 65536
U32WrappingAdd(a, b) ==
    U32((a.hi + b.hi + ((a.lo + b.lo) \div 65536)) % 65536, (a.lo + b.lo) % 65536)

\* a - b likewise.
U32SubWraps(a, b) == U32Lt(a, b)
U32WrappingSub(a, b) ==
    LET borrow == IF a.lo < b.lo THEN 1 ELSE 0
    IN  U32((a.hi - b.hi - borrow) % 65536, (a.lo - b.lo) % 65536)

\* a / b (truncating) for a divisor 0 < b < 2^15, by long division.
U32Div(a, b) ==
    LET d == b.lo
        r == a.hi % d
    IN  U32(a.hi \div d, (r * 65536 + a.lo) \div d)

(***************************************************************************)
(* SampleLocation: the viewport.                                           *)
(***************************************************************************)
F32One == F32(0, 127, 0)         \* 1.0
F32Half == F32(0, 126, 0)        \* 0.5
F32Two == F32(0, 128, 0)         \* 2.0
F32MoveSpeed == F32(0, 122, 5033165)   \* 0.05f32 = 0x3D4CCCCD

FVec2(x, y) == [x |-> x, y |-> y]

\* impl Default for SampleLocation
SampleLocationDefault ==
    [position |-> FVec2(F32Zero(0), F32Zero(0)),
     zoom |-> F32One,
     move_speed |-> F32MoveSpeed]

MandelbrotParams(x_min, x_max, y_min, y_max, max_iterations) ==
    [x_min |-> x_min, x_max |-> x_max, y_min |-> y_min, y_max |-> y_max,
     max_iterations |-> max_iterations]

\* A to_mandlebrot_params with the sign of zoom slipped in x_min.
to_mandlebrot_params_sign_slip(self, max_iterations) ==
    MandelbrotParams(F32Add(self.position.x, self.zoom),
                     F32Add(self.position.x, self.zoom),
                     F32Sub(self.position.y, self.zoom),
                     F32Add(self.position.y, self.zoom),
                     max_iterations)

to_mandlebrot_params(self, max_iterations) ==
    LET x_min == F32Sub(self.position.x, self.zoom)
        x_max == F32Add(self.position.x, self.zoom)
        y_min == F32Sub(self.position.y, self.zoom)
        y_max == F32Add(self.position.y, self.zoom)
    IN  MandelbrotParams(x_min, x_max, y_min, y_max, max_iterations)

left(self) ==
    [self EXCEPT !.position.x = F32Sub(@, F32Mul(self.zoom, self.move_speed))]

\* A right that moves like left.
right_subtracts(self) ==
    [self EXCEPT !.position.x = F32Sub(@, F32Mul(self.zoom, self.move_speed))]

right(self) ==
    [self EXCEPT !.position.x = F32Add(@, F32Mul(self.zoom, self.move_speed))]

up(self) ==
    [self EXCEPT !.position.y = F32Sub(@, F32Mul(self.zoom, self.move_speed))]

down(self) ==
    [self EXCEPT !.position.y = F32Add(@, F32Mul(self.zoom, self.move_speed))]

\* A zoom_in that subtracts 0.5 instead of scaling by it.
zoom_in_subtracts(self) == [self EXCEPT !.zoom = F32Sub(@, F32Half)]

zoom_in(self) == [self EXCEPT !.zoom = F32Mul(@, F32Half)]

\* A zoom_out that adds 2.0 instead of scaling by it.
zoom_out_adds(self) == [self EXCEPT !.zoom = F32Add(@, F32Two)]

zoom_out(self) == [self EXCEPT !.zoom = F32Mul(@, F32Two)]

(***************************************************************************)
(* Computer: dispatch sizing and the compute submission.                   *)
(***************************************************************************)
Size(w, h) == [width |-> w, height |-> h]

WorkgroupSize == Size(U32Of(16), U32Of(16))

\* (width + workgroup_width - 1) / workgroup_width on u32, as a build
\* without overflow checks computes it.
CeilGroups(n, workgroup) ==
    U32Div(U32WrappingSub(U32WrappingAdd(n, workgroup), U32Of(1)), workgroup)

\* Whether that expression overflows u32 on the way: a build with overflow
\* checks panics there ("attempt to add with overflow").
CeilGroupsOverflows(n, workgroup) ==
    \/ U32AddWraps(n, workgroup)
    \/ U32SubWraps(U32WrappingAdd(n, workgroup), U32Of(1))

compute_work_group_count(size, workgroup) ==
    [x |-> CeilGroups(size.width, workgroup.width),
     y |-> CeilGroups(size.height, workgroup.height)]

compute_work_group_count_overflows(size, workgroup) ==
    \/ CeilGroupsOverflows(size.width, workgroup.width)
    \/ CeilGroupsOverflows(size.height, workgroup.height)

\* Computer::run: one command buffer with one compute pass over the
\* output texture, submitted to gpu.queue.  overflow_checks is the build
\* profile.  The result says whether the call panicked and what the
\* queue holds afterwards.
run(texture_size, q, f, mandelbot_params, overflow_checks) ==
    IF overflow_checks /\ compute_work_group_count_overflows(texture_size, WorkgroupSize)
    THEN [panic |-> TRUE, queue |-> q]
    ELSE [panic |-> FALSE,
          queue |-> Append(q, [kind |-> "compute",
                               frame |-> f,
                               params |-> mandelbot_params,
                               dispatch |-> compute_work_group_count(texture_size, WorkgroupSize),
                               texture |-> texture_size])]

(***************************************************************************)
(* Renderer: resize and the render submission.                             *)
(***************************************************************************)
\* What gpu.surface.get_current_texture() can answer.
SurfaceResults == {"Ok", "Timeout", "Outdated", "Lost", "OutOfMemory"}

\* A resize that accepts a size as soon as one dimension is positive.
resize_either_positive(g, size, new_size) ==
    IF ~U32IsZero(new_size.width) \/ ~U32IsZero(new_size.height)
    THEN [gpu |-> [size |-> new_size,
                   config |-> new_size,
                   configures |-> g.configures + 1],
          size |-> new_size]
    ELSE [gpu |-> g, size |-> size]

\* Renderer::resize on the pair (gpu, renderer.size).
resize(g, size, new_size) ==
    IF ~U32IsZero(new_size.width) /\ ~U32IsZero(new_size.height)
    THEN [gpu |-> [size |-> new_size,
                   config |-> new_size,
                   configures |-> g.configures + 1],
          size |-> new_size]
    ELSE [gpu |-> g, size |-> size]

\* A render that has its commands on the queue before it looks at the
\* acquisition result.
render_submits_first(g, q, f, mandelbrot_texture, acquired) ==
    IF acquired # "Ok"
    THEN [panic |-> TRUE,
          queue |-> Append(q, [kind |-> "render",
                               frame |-> f,
                               source |-> mandelbrot_texture,
                               target |-> g.config]),
          presents |-> 0,
          ret |-> <<>>]
    ELSE [panic |-> FALSE,
          queue |-> Append(q, [kind |-> "render",
                               frame |-> f,
                               source |-> mandelbrot_texture,
                               target |-> g.config]),
          presents |-> 1,
          ret |-> <<"Ok">>]

\* Renderer::render: get_current_texture().unwrap() panics on every
\* acquisition error; otherwise one render pass reading the compute
\* texture is submitted to the same queue and the frame is presented.
render(g, q, f, mandelbrot_texture, acquired) ==
    IF acquired # "Ok"
    THEN [panic |-> TRUE, queue |-> q, presents |-> 0, ret |-> <<>>]
    ELSE [panic |-> FALSE,
          queue |-> Append(q, [kind |-> "render",
                               frame |-> f,
                               source |-> mandelbrot_texture,
                               target |-> g.config]),
          presents |-> 1,
          ret |-> <<"Ok">>]

(***************************************************************************)
(* App and the event loop of main().                                       *)
(***************************************************************************)
VARIABLES
    sample_location,   \* app.sample_location
    gpu,               \* app.gpu: size, config (width, height), and the
                       \* number of surface.configure calls since start
    renderer_size,     \* app.renderer.size
    texture_size,      \* app.computer.texture_size, the output texture's size
    queue,             \* the submissions made to gpu.queue, oldest first
    presented,         \* number of output.present() calls
    control_flow,      \* "Poll" or "Exit"
    pc,                \* "running" or "panicked"
    frame,             \* number of RedrawRequested events handled
    redraw_requested,  \* window.request_redraw() is pending
    last_call,         \* the event or call handled last: what it was given,
                       \* the viewport before it, and what it returned
    nops               \* exploration counter, see the bounds

vars == <<sample_location, gpu, renderer_size, texture_size, queue, presented,
          control_flow, pc, frame, redraw_requested, last_call, nops, nan_sign>>

\* let size = UVec2::new(1024, 1024)
MainSize == Size(U32Of(1024), U32Of(1024))

\* max_iterations passed by the redraw handler
MaxIterations == 180

\* Exploration bounds.
MaxFrames == 2      \* RedrawRequested events handled
MaxKeys == 1        \* keyboard events handled
MaxConfigures == 1  \* surface reconfigurations
MaxOps == 3         \* viewport calls made once the position left the origin

Call(op, arg, before, ret) == [op |-> op, arg |-> arg, before |-> before, ret |-> ret]

\* GPUInterface::new(window): the surface is configured to the window's
\* inner size.
GPUInterfaceNew(window_size) ==
    [size |-> window_size, config |-> window_size, configures |-> 0]

\* App::new(size, &window), with the window main() builds.
AppNew(size) ==
    /\ sample_location = SampleLocationDefault
    /\ gpu = GPUInterfaceNew(MainSize)
    /\ renderer_size = size
    /\ texture_size = size
    /\ queue = <<>>
    /\ presented = 0
    /\ control_flow = "Poll"
    /\ pc = "running"
    /\ frame = 0
    /\ redraw_requested = FALSE
    /\ last_call = Call("new", <<size>>, SampleLocationDefault, <<>>)
    /\ nops = 0
    /\ nan_sign \in {0, 1}

Init == AppNew(MainSize)

\* The closure is called for every event it is handed until a call in it
\* panics; it never reads *control_flow, so an event delivered after
\* ControlFlow::Exit was set is handled like any other.
Running == pc = "running"

\* Window events delivered to the closure.
VirtualKeyCodes ==
    {"Left", "Right", "Up", "Down", "NumpadAdd", "NumpadSubtract", "Escape", "Space"}
ElementStates == {"Pressed", "Released"}
SizeInputs ==
    {Size(U32Of(w), U32Of(h)) : w \in {0, 512}, h \in {0, 1000}}

KeyEvent(state, key) == [type |-> "KeyboardInput", state |-> state, virtual_keycode |-> key]
SizeEvent(type, size) == [type |-> type, size |-> size]
PlainEvent(type) == [type |-> type]

\* The six `if input.virtual_keycode == Some(..)` statements of
\* App::handle_event, in order.
PressedLeft(key, self) == IF key = "Left" THEN left(self) ELSE self
PressedRight(key, self) == IF key = "Right" THEN right(self) ELSE self
PressedUp(key, self) == IF key = "Up" THEN up(self) ELSE self
PressedDown(key, self) == IF key = "Down" THEN down(self) ELSE self
PressedNumpadAdd(key, self) == IF key = "NumpadAdd" THEN zoom_in(self) ELSE self
PressedNumpadSubtract(key, self) == IF key = "NumpadSubtract" THEN zoom_out(self) ELSE self

\* A handle_event that does not look at input.state.
handle_event_any_state(self, event) ==
    IF event.type = "KeyboardInput"
    THEN PressedNumpadSubtract(event.virtual_keycode,
         PressedNumpadAdd(event.virtual_keycode,
         PressedDown(event.virtual_keycode,
         PressedUp(event.virtual_keycode,
         PressedRight(event.virtual_keycode,
         PressedLeft(event.virtual_keycode, self))))))
    ELSE self

\* App::handle_event: the new sample_location (the function returns false).
handle_event(self, event) ==
    IF event.type = "KeyboardInput"
    THEN IF event.state = "Pressed"
         THEN PressedNumpadSubtract(event.virtual_keycode,
              PressedNumpadAdd(event.virtual_keycode,
              PressedDown(event.virtual_keycode,
              PressedUp(event.virtual_keycode,
              PressedRight(event.virtual_keycode,
              PressedLeft(event.virtual_keycode, self))))))
         ELSE self
    ELSE self

\* The Event::WindowEvent arm of the closure.
WindowEvent(event) ==
    LET resized == IF event.type \in {"Resized", "ScaleFactorChanged"}
                   THEN resize(gpu, renderer_size, event.size)
                   ELSE [gpu |-> gpu, size |-> renderer_size]
        exit == \/ event.type = "CloseRequested"
                \/ /\ event.type = "KeyboardInput"
                   /\ event.state = "Pressed"
                   /\ event.virtual_keycode = "Escape"
    IN  /\ sample_location' = handle_event(sample_location, event)
        /\ gpu' = resized.gpu
        /\ renderer_size' = resized.size
        /\ control_flow' = IF exit THEN "Exit" ELSE control_flow
        /\ last_call' = Call(event.type, <<event>>, sample_location, <<>>)
        /\ UNCHANGED <<texture_size, queue, presented, pc, frame, redraw_requested,
                       nan_sign>>

KeyboardInput ==
    /\ Running
    /\ nops < MaxKeys
    /\ nops' = nops + 1
    /\ \E state \in ElementStates, key \in VirtualKeyCodes :
          WindowEvent(KeyEvent(state, key))

ZeroArea(size) == U32IsZero(size.width) \/ U32IsZero(size.height)

Resized ==
    /\ Running
    /\ UNCHANGED nops
    /\ \E size \in SizeInputs :
          /\ gpu.configures < MaxConfigures \/ ZeroArea(size)
          /\ WindowEvent(SizeEvent("Resized", size))

ScaleFactorChanged ==
    /\ Running
    /\ UNCHANGED nops
    /\ \E size \in SizeInputs :
          /\ gpu.configures < MaxConfigures \/ ZeroArea(size)
          /\ WindowEvent(SizeEvent("ScaleFactorChanged", size))

CloseRequested ==
    /\ Running
    /\ UNCHANGED nops
    /\ WindowEvent(PlainEvent("CloseRequested"))

\* Any other window event (focus, cursor, ...): the `_ => {}` arms.
OtherWindowEvent ==
    /\ Running
    /\ UNCHANGED nops
    /\ WindowEvent(PlainEvent("Focused"))

\* The match on render's result in the redraw handler, on (gpu,
\* renderer.size).
on_render_result(ret, g, size) ==
    IF ret = <<"Ok">> THEN [gpu |-> g, size |-> size, exit |-> FALSE]
    ELSE IF ret = <<"Err", "Lost">>
         THEN [gpu |-> resize(g, size, g.size).gpu,
               size |-> resize(g, size, g.size).size,
               exit |-> FALSE]
    ELSE IF ret = <<"Err", "OutOfMemory">> THEN [gpu |-> g, size |-> size, exit |-> TRUE]
    ELSE [gpu |-> g, size |-> size, exit |-> FALSE]

\* The handler's outcome when a call in it panicked: the closure is left
\* with whatever had been submitted.
redraw_panicked(q, g, size) ==
    [panic |-> TRUE, queue |-> q, presents |-> 0, ret |-> <<>>,
     gpu |-> g, size |-> size, exit |-> FALSE]

\* ... when render returned r and the match on r.ret gave m.
redraw_matched(r, m) ==
    [panic |-> FALSE, queue |-> r.queue, presents |-> r.presents, ret |-> r.ret,
     gpu |-> m.gpu, size |-> m.size, exit |-> m.exit]

\* ... after render gave r.
redraw_rendered(r, g, size) ==
    IF r.panic
    THEN redraw_panicked(r.queue, g, size)
    ELSE redraw_matched(r, on_render_result(r.ret, g, size))

\* ... after computer.run gave c: renderer.render comes next.
redraw_computed(c, g, size, tex, f, acquired) ==
    IF c.panic
    THEN redraw_panicked(c.queue, g, size)
    ELSE redraw_rendered(render(g, c.queue, f, tex, acquired), g, size)

\* A redraw handler that calls renderer.render before computer.run.
redraw_render_first(mandelbrot_params, g, size, tex, q, f, acquired, overflow_checks) ==
    IF render(g, q, f, tex, acquired).panic
    THEN redraw_panicked(q, g, size)
    ELSE redraw_matched(
             [queue |-> run(tex, render(g, q, f, tex, acquired).queue, f,
                            mandelbrot_params, overflow_checks).queue,
              presents |-> 1,
              ret |-> <<"Ok">>],
             on_render_result(<<"Ok">>, g, size))

\* The Event::RedrawRequested arm, given the parameters
\* to_mandlebrot_params(180) produced: computer.run, then renderer.render
\* on the texture run returned, then the match on render's result.
redraw(mandelbrot_params, g, size, tex, q, f, acquired, overflow_checks) ==
    redraw_computed(run(tex, q, f, mandelbrot_params, overflow_checks),
                    g, size, tex, f, acquired)

RedrawOutcome(d, acquired) ==
    /\ queue' = d.queue
    /\ presented' = presented + d.presents
    /\ pc' = IF d.panic THEN "panicked" ELSE pc
    /\ gpu' = d.gpu
    /\ renderer_size' = d.size
    /\ control_flow' = IF d.exit THEN "Exit" ELSE control_flow
    /\ last_call' = Call("RedrawRequested", <<acquired>>, sample_location, d.ret)

RedrawRequested ==
    /\ Running
    /\ frame < MaxFrames
    /\ LET mandelbrot_params == to_mandlebrot_params(sample_location, MaxIterations)
       IN  \E acquired \in SurfaceResults, overflow_checks \in BOOLEAN :
              RedrawOutcome(redraw(mandelbrot_params, gpu, renderer_size, texture_size,
                                   queue, frame + 1, acquired, overflow_checks),
                            acquired)
    /\ frame' = frame + 1
    /\ redraw_requested' = FALSE
    /\ UNCHANGED <<sample_location, texture_size, nops, nan_sign>>

MainEventsCleared ==
    /\ Running
    /\ redraw_requested' = TRUE
    /\ last_call' = Call("MainEventsCleared", <<>>, sample_location, <<>>)
    /\ UNCHANGED <<sample_location, gpu, renderer_size, texture_size, queue, presented,
                   control_flow, pc, frame, nops, nan_sign>>

Next ==
    \/ KeyboardInput
    \/ Resized
    \/ ScaleFactorChanged
    \/ CloseRequested
    \/ OtherWindowEvent
    \/ RedrawRequested
    \/ MainEventsCleared

Spec == Init /\ [][Next]_vars

(***************************************************************************)
(* SpecView: the SampleLocation methods called directly, in any order,     *)
(* starting from SampleLocation::default().  zoom saturates at 0 and at    *)
(* infinity, so the calls made at the origin are finite in number without  *)
(* a bound; once a pan has moved the position off the origin, at most      *)
(* MaxOps further calls are explored.                                      *)
(***************************************************************************)
IterInputs == {MaxIterations, -1}

AtOrigin(loc) == IsZero(loc.position.x) /\ IsZero(loc.position.y)

ViewCall(op, arg, new_location, ret) ==
    /\ pc = "running"
    /\ AtOrigin(sample_location) \/ nops < MaxOps
    /\ nops' = IF AtOrigin(sample_location) THEN nops ELSE nops + 1
    /\ sample_location' = new_location
    /\ last_call' = Call(op, arg, sample_location, ret)
    /\ UNCHANGED <<gpu, renderer_size, texture_size, queue, presented, control_flow, pc,
                   frame, redraw_requested, nan_sign>>

CallLeft == ViewCall("left", <<>>, left(sample_location), <<>>)
CallRight == ViewCall("right", <<>>, right(sample_location), <<>>)
CallUp == ViewCall("up", <<>>, up(sample_location), <<>>)
CallDown == ViewCall("down", <<>>, down(sample_location), <<>>)
CallZoomIn == ViewCall("zoom_in", <<>>, zoom_in(sample_location), <<>>)
CallZoomOut == ViewCall("zoom_out", <<>>, zoom_out(sample_location), <<>>)

CallToParams ==
    \E max_iterations \in IterInputs :
        ViewCall("to_mandlebrot_params", <<max_iterations>>, sample_location,
                 <<to_mandlebrot_params(sample_location, max_iterations)>>)

ViewNext ==
    \/ CallLeft
    \/ CallRight
    \/ CallUp
    \/ CallDown
    \/ CallZoomIn
    \/ CallZoomOut
    \/ CallToParams

SpecView == Init /\ [][ViewNext]_vars

(***************************************************************************)
(* SpecGrid: Computer::new(size, gpu) for a range of u32 sizes, then       *)
(* Computer::run, which sizes the dispatch from texture_size.              *)
(***************************************************************************)
GridInputs ==
    {U32Of(1), U32Of(16), U32Of(17), U32Of(1000), U32Of(1024), U32Of(65536),
     U32(65535, 65519), U32(65535, 65520), U32(65535, 65521), U32(65535, 65535)}

GridInit == \E w \in GridInputs, h \in GridInputs : AppNew(Size(w, h))

ComputerRunOutcome(c, overflow_checks) ==
    /\ queue' = c.queue
    /\ pc' = IF c.panic THEN "panicked" ELSE pc
    /\ last_call' = Call("run", <<overflow_checks>>, sample_location,
                         IF c.panic THEN <<>> ELSE <<texture_size>>)

ComputerRun ==
    /\ Running
    /\ frame < MaxFrames
    /\ \E overflow_checks \in BOOLEAN :
          ComputerRunOutcome(run(texture_size, queue, frame + 1,
                                 to_mandlebrot_params(sample_location, MaxIterations),
                                 overflow_checks),
                             overflow_checks)
    /\ frame' = frame + 1
    /\ UNCHANGED <<sample_location, gpu, renderer_size, texture_size, presented,
                   control_flow, redraw_requested, nops, nan_sign>>

GridNext == ComputerRun

SpecGrid == GridInit /\ [][GridNext]_vars

(***************************************************************************)
(* Properties of the frame pipeline (Spec).                                *)
(***************************************************************************)
Submissions(kind, f) == {i \in DOMAIN queue : queue[i].kind = kind /\ queue[i].frame = f}

\* C1: in every frame the render submission, which reads the output
\* texture, sits on the one device queue directly after that frame's
\* compute submission, which writes it; each frame handled has exactly one
\* compute submission, nothing else writes the texture, and frames follow
\* each other in order on the queue.
C1_RenderAfterCompute ==
    /\ \A f \in 1..frame : Cardinality(Submissions("compute", f)) = 1
    /\ \A i \in DOMAIN queue :
          /\ queue[i].kind \in {"compute", "render"}
          /\ queue[i].frame \in 1..frame
          /\ queue[i].kind = "render" =>
                /\ i > 1
                /\ queue[i - 1].kind = "compute"
                /\ queue[i - 1].frame = queue[i].frame
                /\ queue[i].source = queue[i - 1].texture
          /\ i > 1 => queue[i - 1].frame <= queue[i].frame

\* Two complete frames, after a key press and a surface reconfiguration.
C1_Witness ==
    /\ frame = 2
    /\ Len(queue) = 4
    /\ queue[4].kind = "render"
    /\ gpu.configures > 0
    /\ sample_location # SampleLocationDefault

\* C3: when get_current_texture fails, render hands the failure back to
\* the redraw handler as Err(e) and the process keeps running.
C3_AcquireFailureReturned ==
    (last_call.op = "RedrawRequested" /\ last_call.arg[1] # "Ok") =>
        /\ pc = "running"
        /\ last_call.ret = <<"Err", last_call.arg[1]>>

\* C4 as claimed: a frame has both its submissions on the queue or, when
\* acquisition failed, none.
C4_AllOrNothing ==
    \A f \in 1..frame :
        \/ /\ Cardinality(Submissions("compute", f)) = 1
           /\ Cardinality(Submissions("render", f)) = 1
        \/ /\ Submissions("compute", f) = {}
           /\ Submissions("render", f) = {}

\* C4 as amended: every frame submits its compute pass, before the surface
\* image is asked for; its render pass is submitted exactly when the
\* acquisition succeeds.  A frame whose acquisition fails leaves its
\* compute submission on the queue without a render submission, and is the
\* last frame, since render panics there.
C4_ComputeThenRenderIfAcquired ==
    /\ \A f \in 1..frame :
          /\ Cardinality(Submissions("compute", f)) = 1
          /\ Cardinality(Submissions("render", f))
                = (IF f = frame /\ pc = "panicked" THEN 0 ELSE 1)
    /\ last_call.op = "RedrawRequested" =>
          (pc = "panicked" <=> last_call.arg[1] # "Ok")
    /\ presented = Cardinality({i \in DOMAIN queue : queue[i].kind = "render"})

\* A second frame whose acquisition failed: three submissions.
C4_Witness ==
    /\ frame = 2
    /\ last_call.op = "RedrawRequested"
    /\ last_call.arg[1] = "Lost"
    /\ Len(queue) = 3
    /\ queue[3].kind = "compute"

\* C5: at every compute dispatch the output texture, and the size the
\* dispatch grid is computed from, is the stored surface size.
C5_OutputImageTracksSurface ==
    last_call.op = "RedrawRequested" =>
        \A i \in Submissions("compute", frame) :
            /\ queue[i].texture = renderer_size
            /\ queue[i].dispatch = compute_work_group_count(renderer_size, WorkgroupSize)

\* C6: a resize event with a zero dimension leaves gpu.size, gpu.config,
\* renderer.size and the output texture as they were and configures
\* nothing; one with two positive dimensions configures the surface once
\* and makes gpu.size, gpu.config and renderer.size the new size.
ResizeEffect ==
    last_call'.op \in {"Resized", "ScaleFactorChanged"} =>
        IF ZeroArea(last_call'.arg[1].size)
        THEN UNCHANGED <<gpu, renderer_size, texture_size>>
        ELSE /\ gpu'.size = last_call'.arg[1].size
             /\ gpu'.config = last_call'.arg[1].size
             /\ gpu'.configures = gpu.configures + 1
             /\ renderer_size' = last_call'.arg[1].size
             /\ texture_size' = texture_size

C6_ResizeIffPositive == [][ResizeEffect]_vars

\* A zero-width resize arriving after a resize that took effect.
C6_Witness ==
    /\ last_call.op = "Resized"
    /\ U32IsZero(last_call.arg[1].size.width)
    /\ ~U32IsZero(last_call.arg[1].size.height)
    /\ gpu.configures = 1
    /\ renderer_size # MainSize

(***************************************************************************)
(* Properties of the dispatch grid (SpecGrid).                             *)
(***************************************************************************)
\* floor((n - 1) / 16) for n >= 1.
BlocksBelow(n) == U32Div(U32WrappingSub(n, U32Of(1)), U32Of(16))

\* x blocks of 16 cover n, and x - 1 blocks do not.
CoversMinimally(x, n) ==
    /\ U32Lt(BlocksBelow(n), x)
    /\ U32Le(U32WrappingSub(x, U32Of(1)), BlocksBelow(n))

\* C2: for every positive u32 width and height the dispatch is
\* (ceil(width/16), ceil(height/16)): it covers the image and is minimal;
\* 1024x1024 gives (64,64) and 1000x1000 gives (63,63).
C2_DispatchIsCeiling ==
    last_call.op = "run" =>
        /\ pc = "running"
        /\ \A i \in Submissions("compute", frame) :
              /\ CoversMinimally(queue[i].dispatch.x, texture_size.width)
              /\ CoversMinimally(queue[i].dispatch.y, texture_size.height)
              /\ texture_size.width = U32Of(1024) => queue[i].dispatch.x = U32Of(64)
              /\ texture_size.width = U32Of(1000) => queue[i].dispatch.x = U32Of(63)

(***************************************************************************)
(* Properties of the viewport (SpecView).  last_call.before is the         *)
(* viewport the last call was made on, sample_location the one it left.    *)
(***************************************************************************)
F32MinSubnormal == F32(0, 0, 1)    \* 2^-149

\* C7 as claimed: zoom > 0 in every reachable state.
C7_ZoomPositive == F32Gt(sample_location.zoom, F32Zero(0))

\* C7 as amended: zoom is never negative and never NaN, and it is strictly
\* positive until zoom_in is called on the smallest subnormal 2^-149,
\* whose half rounds to 0.0; no other call takes zoom out of the
\* positives, and a zoom of 0.0 stays 0.0.
C7_ZoomNonNegative ==
    /\ sample_location.zoom.s = 0
    /\ ~IsNaN(sample_location.zoom)
    /\ (F32Gt(last_call.before.zoom, F32Zero(0)) /\ ~F32Gt(sample_location.zoom, F32Zero(0))) =>
          /\ last_call.op = "zoom_in"
          /\ last_call.before.zoom = F32MinSubnormal
          /\ sample_location.zoom = F32Zero(0)
    /\ IsZero(last_call.before.zoom) => sample_location.zoom = F32Zero(0)

\* zoom_in has just taken the smallest subnormal to zero.
C7_Witness ==
    /\ last_call.op = "zoom_in"
    /\ last_call.before.zoom = F32MinSubnormal
    /\ IsZero(sample_location.zoom)

ParamsOf(call) == call.ret[1]

\* The extents and the midpoint as a caller computes them in f32.
ExtentsExact(p, loc) ==
    /\ F32Eq(F32Sub(p.x_max, p.x_min), F32Mul(F32Two, loc.zoom))
    /\ F32Eq(F32Sub(p.y_max, p.y_min), F32Mul(F32Two, loc.zoom))
    /\ F32Eq(loc.position.x, F32Mul(F32Add(p.x_min, p.x_max), F32Half))
    /\ F32Eq(loc.position.y, F32Mul(F32Add(p.y_min, p.y_max), F32Half))

\* C8 as claimed: for zoom > 0 the parameters are center -/+ zoom with the
\* iteration cap passed through, so that both extents are 2 * zoom and
\* the center is the midpoint.
C8_ParamsExact ==
    (last_call.op = "to_mandlebrot_params" /\ F32Gt(sample_location.zoom, F32Zero(0))) =>
        /\ ParamsOf(last_call).max_iterations = last_call.arg[1]
        /\ ExtentsExact(ParamsOf(last_call), sample_location)

\* C8 as amended: the parameters are the f32-rounded center -/+ zoom with
\* the iteration cap passed through; they bracket the center whenever the
\* center is finite; both extents are exactly 2 * zoom and the center is
\* exactly the midpoint when the center is (0,0) and zoom is finite, as in
\* the example (two zoom_in from the default, then 180, gives
\* (-0.25, 0.25, -0.25, 0.25, 180)); after a pan rounding can break both
\* identities.
C8_ParamsBracketCenter ==
    last_call.op = "to_mandlebrot_params" =>
        /\ ParamsOf(last_call).max_iterations = last_call.arg[1]
        /\ IsFinite(sample_location.position.x) =>
              /\ F32Le(ParamsOf(last_call).x_min, sample_location.position.x)
              /\ F32Le(sample_location.position.x, ParamsOf(last_call).x_max)
        /\ IsFinite(sample_location.position.y) =>
              /\ F32Le(ParamsOf(last_call).y_min, sample_location.position.y)
              /\ F32Le(sample_location.position.y, ParamsOf(last_call).y_max)
        /\ (AtOrigin(sample_location) /\ IsFinite(sample_location.zoom)) =>
              /\ ExtentsExact(ParamsOf(last_call), sample_location)
              /\ F32Eq(ParamsOf(last_call).x_min, F32Neg(sample_location.zoom))
              /\ F32Eq(ParamsOf(last_call).x_max, sample_location.zoom)
              /\ F32Eq(ParamsOf(last_call).y_min, F32Neg(sample_location.zoom))
              /\ F32Eq(ParamsOf(last_call).y_max, sample_location.zoom)
        /\ (AtOrigin(sample_location) /\ sample_location.zoom = F32(0, 125, 0)
              /\ last_call.arg[1] = 180) =>
              ParamsOf(last_call)
                 = MandelbrotParams(F32(1, 125, 0), F32(0, 125, 0),
                                    F32(1, 125, 0), F32(0, 125, 0), 180)

\* to_mandlebrot_params called on a panned viewport with zoom > 0 where
\* the midpoint of the result is not the center.
C8_Witness ==
    /\ last_call.op = "to_mandlebrot_params"
    /\ ~AtOrigin(sample_location)
    /\ F32Gt(sample_location.zoom, F32Zero(0))
    /\ IsFinite(sample_location.zoom)
    /\ ~ExtentsExact(ParamsOf(last_call), sample_location)

\* C9 as claimed: zoom_in followed by zoom_out restores the viewport the
\* pair started from, whatever the zoom.
RoundTripRestores ==
    (last_call.op = "zoom_in" /\ last_call'.op = "zoom_out") =>
        sample_location' = last_call.before

C9_ZoomRoundTrip == [][RoundTripRestores]_vars

\* C9 as amended: zoom_in followed by zoom_out restores zoom exactly, and
\* leaves the center and move_speed alone, from every zoom the viewport
\* can have except the smallest subnormal 2^-149: there zoom_in rounds to
\* 0.0 and zoom_out leaves 0.0.
RoundTripRestoresAboveMin ==
    (/\ last_call.op = "zoom_in"
     /\ last_call'.op = "zoom_out"
     /\ last_call.before.zoom # F32MinSubnormal) =>
        sample_location' = last_call.before

C9_ZoomRoundTripAboveMin == [][RoundTripRestoresAboveMin]_vars

\* A zoom_in, zoom_out pair completed on a panned viewport.
C9_Witness ==
    /\ last_call.op = "zoom_out"
    /\ last_call.before = zoom_in(sample_location)
    /\ ~AtOrigin(sample_location)
    /\ sample_location.zoom = F32One

PanStep(loc) == F32Mul(loc.zoom, loc.move_speed)

OnlyXMoved ==
    /\ sample_location.position.y = last_call.before.position.y
    /\ sample_location.zoom = last_call.before.zoom
    /\ sample_location.move_speed = last_call.before.move_speed

OnlyYMoved ==
    /\ sample_location.position.x = last_call.before.position.x
    /\ sample_location.zoom = last_call.before.zoom
    /\ sample_location.move_speed = last_call.before.move_speed

\* C10 as claimed: each pan moves one coordinate by zoom * move_speed in
\* its direction (right and down increase, left and up decrease) and
\* leaves the rest alone.
C10_PanMovesInDirection ==
    /\ last_call.op = "right" =>
          /\ OnlyXMoved
          /\ F32Gt(sample_location.position.x, last_call.before.position.x)
    /\ last_call.op = "left" =>
          /\ OnlyXMoved
          /\ F32Lt(sample_location.position.x, last_call.before.position.x)
    /\ last_call.op = "down" =>
          /\ OnlyYMoved
          /\ F32Gt(sample_location.position.y, last_call.before.position.y)
    /\ last_call.op = "up" =>
          /\ OnlyYMoved
          /\ F32Lt(sample_location.position.y, last_call.before.position.y)

\* C10 as amended: each pan changes one coordinate only and leaves zoom
\* and move_speed alone; while zoom is finite the coordinate never moves
\* against the pan's direction, and from a coordinate of 0 it moves
\* strictly whenever the f32 product zoom * move_speed is not zero.  The
\* coordinate stays where it is when that product underflows to zero
\* (zoom of 2^-146 and below) or is absorbed in the rounded sum.
C10_PanNeverBackwards ==
    /\ last_call.op = "right" =>
          /\ OnlyXMoved
          /\ IsFinite(last_call.before.zoom) =>
                /\ F32Ge(sample_location.position.x, last_call.before.position.x)
                /\ (IsZero(last_call.before.position.x) /\ ~IsZero(PanStep(last_call.before)))
                      => F32Gt(sample_location.position.x, last_call.before.position.x)
    /\ last_call.op = "left" =>
          /\ OnlyXMoved
          /\ IsFinite(last_call.before.zoom) =>
                /\ F32Le(sample_location.position.x, last_call.before.position.x)
                /\ (IsZero(last_call.before.position.x) /\ ~IsZero(PanStep(last_call.before)))
                      => F32Lt(sample_location.position.x, last_call.before.position.x)
    /\ last_call.op = "down" =>
          /\ OnlyYMoved
          /\ IsFinite(last_call.before.zoom) =>
                /\ F32Ge(sample_location.position.y, last_call.before.position.y)
                /\ (IsZero(last_call.before.position.y) /\ ~IsZero(PanStep(last_call.before)))
                      => F32Gt(sample_location.position.y, last_call.before.position.y)
    /\ last_call.op = "up" =>
          /\ OnlyYMoved
          /\ IsFinite(last_call.before.zoom) =>
                /\ F32Le(sample_location.position.y, last_call.before.position.y)
                /\ (IsZero(last_call.before.position.y) /\ ~IsZero(PanStep(last_call.before)))
                      => F32Lt(sample_location.position.y, last_call.before.position.y)

\* A right made at a positive zoom whose step underflowed: x did not move.
C10_Witness ==
    /\ last_call.op = "right"
    /\ F32Gt(last_call.before.zoom, F32Zero(0))
    /\ IsZero(PanStep(last_call.before))
    /\ sample_location.position.x = last_call.before.position.x

(***************************************************************************)
(* Properties of the frame driver's error handling (Spec).                 *)
(***************************************************************************)
\* What the redraw handler does with a frame whose surface acquisition
\* answered last_call'.arg[1], as the claim has it.
FrameDriverEffect ==
    last_call'.op = "RedrawRequested" =>
        /\ last_call'.arg[1] = "Lost" =>
              /\ pc' = "running"
              /\ control_flow' = control_flow
              /\ gpu' = resize(gpu, renderer_size, gpu.size).gpu
              /\ gpu'.configures = gpu.configures + 1
              /\ renderer_size' = gpu.size
        /\ last_call'.arg[1] = "OutOfMemory" =>
              /\ pc' = "running"
              /\ control_flow' = "Exit"
        /\ last_call'.arg[1] \in {"Timeout", "Outdated"} =>
              /\ pc' = "running"
              /\ control_flow' = control_flow
              /\ UNCHANGED <<sample_location, gpu, renderer_size>>

\* C11: a frame whose acquisition is Lost reconfigures the surface with
\* the current gpu.size and the loop goes on; one that is OutOfMemory sets
\* ControlFlow::Exit; one that is Timeout or Outdated is only reported,
\* leaving the viewport, gpu.size and renderer.size alone, and the loop
\* goes on to the next frame.
C11_DriverHandlesRenderErrors == [][FrameDriverEffect]_vars

(***************************************************************************)
(* Properties of input handling (Spec).                                    *)
(***************************************************************************)
\* The one viewport command a key stands for; none for any other key.
ViewportCommand(key, loc) ==
    CASE key = "Left" -> left(loc)
      [] key = "Right" -> right(loc)
      [] key = "Up" -> up(loc)
      [] key = "Down" -> down(loc)
      [] key = "NumpadAdd" -> zoom_in(loc)
      [] key = "NumpadSubtract" -> zoom_out(loc)
      [] OTHER -> loc

\* C13: a press of Left, Right, Up, Down, NumpadAdd or NumpadSubtract
\* applies that key's command to the viewport exactly once and no other
\* command; a key release, a press of any other key, and every window
\* event that is not a keyboard event leave the viewport as it was.
C13_OneCommandPerPress ==
    /\ last_call.op = "KeyboardInput" =>
          sample_location =
              (IF last_call.arg[1].state = "Pressed"
               THEN ViewportCommand(last_call.arg[1].virtual_keycode, last_call.before)
               ELSE last_call.before)
    /\ last_call.op \in {"Resized", "ScaleFactorChanged", "CloseRequested", "Focused"} =>
          sample_location = last_call.before

\* A press of Left handled from the default viewport: x went to -0.05 once,
\* y and zoom stayed.
C13_Witness ==
    /\ last_call.op = "KeyboardInput"
    /\ last_call.arg[1] = KeyEvent("Pressed", "Left")
    /\ last_call.before = SampleLocationDefault
    /\ sample_location.position.x = F32Neg(F32MoveSpeed)
    /\ sample_location.position.y = SampleLocationDefault.position.y
    /\ sample_location.zoom = F32One

====
